---------------------------- MODULE Spec2Model ----------------------------
(***************************************************************************)
(* Double helix on a torus: the position mapper calculateHelixPosition and *)
(* the grid fill / animation loops of src/src/main.ts.                     *)
(*                                                                         *)
(* Numbers.  The program computes with JavaScript numbers; the model       *)
(* computes with exact real numbers of three shapes:                       *)
(*   Rat   <<n, d>>            the rational n/d, d > 0, in lowest terms    *)
(*   Surd  [a, b, d]           (a + b*sqrt(3))/d, in lowest terms          *)
(*   Num   <<S0, S1, ...>>     S0 + S1*u + S2*u^2 + ..., Sk a Surd,        *)
(*                             u = 1/(2*pi), no trailing zero coefficient  *)
(* Angles are held as rational multiples of pi (Math.PI is the unit), and  *)
(* Math.cos / Math.sin are exact on the multiples of pi/6, where their     *)
(* values lie in Q(sqrt 3).  pi is transcendental, so two Nums are equal   *)
(* as real numbers exactly when they are equal as values of the model.     *)
(***************************************************************************)
EXTENDS Integers, Sequences, FiniteSets, TLC

(* ------------------------------ bounds -------------------------------- *)

\* particlesPerHelix ranges over 1..MaxPerHelix (particleCount = 2, 4, ...)
MaxPerHelix == 6
\* timeOffset ranges over k/12 for k in -MaxOffset12..MaxOffset12
MaxOffset12 == 25
\* turns ranges over k/2 for k in 1..MaxTurns2
MaxTurns2 == 8

(* ------------------------- integer helpers ---------------------------- *)

Abs(n) == IF n < 0 THEN -n ELSE n

Max(a, b) == IF a >= b THEN a ELSE b

RECURSIVE GCD(_, _)
GCD(a, b) == IF b = 0 THEN a ELSE GCD(b, a % b)

LCM(a, b) == (a \div GCD(a, b)) * b

(* ---------------------------- rationals ------------------------------- *)

Rat(n, d) ==
  LET s == IF d < 0 THEN -1 ELSE 1
      g == GCD(Abs(n), Abs(d))
  IN  <<(s * n) \div g, (s * d) \div g>>

RInt(n) == <<n, 1>>

RAdd(p, q) == Rat(p[1] * q[2] + q[1] * p[2], p[2] * q[2])

RMul(p, q) == Rat(p[1] * q[1], p[2] * q[2])

RDiv(p, q) == Rat(p[1] * q[2], p[2] * q[1])

RLess(p, q) == p[1] * q[2] < q[1] * p[2]

RLeq(p, q) == p[1] * q[2] <= q[1] * p[2]

\* the mathematical (floor based) remainder of p modulo 1, in [0, 1)
RModFloor1(p) == Rat(p[1] % p[2], p[2])

(* ------------------- surds (a + b*sqrt 3)/d --------------------------- *)

Surd(a, b, d) ==
  LET g == GCD(GCD(Abs(a), Abs(b)), d)
  IN  [a |-> a \div g, b |-> b \div g, d |-> d \div g]

SZero == Surd(0, 0, 1)

SOfRat(p) == Surd(p[1], 0, p[2])

SNeg(s) == [a |-> -s.a, b |-> -s.b, d |-> s.d]

SAdd(s, r) ==
  LET l == LCM(s.d, r.d)
  IN  Surd(s.a * (l \div s.d) + r.a * (l \div r.d),
           s.b * (l \div s.d) + r.b * (l \div r.d), l)

SMul(s, r) == Surd(s.a * r.a + 3 * s.b * r.b, s.a * r.b + s.b * r.a, s.d * r.d)

\* the sign of (a + b*sqrt 3)/d, exactly (sqrt 3 is irrational)
SSign(s) ==
  IF s.a = 0 /\ s.b = 0 THEN 0
  ELSE IF s.a >= 0 /\ s.b >= 0 THEN 1
  ELSE IF s.a <= 0 /\ s.b <= 0 THEN -1
  ELSE IF s.a > 0 THEN (IF s.a * s.a > 3 * s.b * s.b THEN 1 ELSE -1)
  ELSE (IF 3 * s.b * s.b > s.a * s.a THEN 1 ELSE -1)

(* --------------- numbers: polynomials in u = 1/(2 pi) ------------------ *)

RECURSIVE NTrim(_)
NTrim(p) ==
  IF p = <<>> THEN p
  ELSE IF p[Len(p)] = SZero THEN NTrim(SubSeq(p, 1, Len(p) - 1))
  ELSE p

NCoef(p, k) == IF k <= Len(p) THEN p[k] ELSE SZero

NOfSurd(s) == NTrim(<<s>>)

NOfRat(q) == NOfSurd(SOfRat(q))

NZero == <<>>

NAdd(p, q) == NTrim([k \in 1..Max(Len(p), Len(q)) |-> SAdd(NCoef(p, k), NCoef(q, k))])

NNeg(p) == [k \in 1..Len(p) |-> SNeg(p[k])]

NSub(p, q) == NAdd(p, NNeg(q))

RECURSIVE SSum(_, _, _, _)
\* sum over j = lo..hi of p[j] * q[k + 1 - j]
SSum(p, q, k, j) ==
  IF j > k THEN SZero
  ELSE SAdd(SMul(NCoef(p, j), NCoef(q, k + 1 - j)), SSum(p, q, k, j + 1))

NMul(p, q) ==
  IF p = <<>> \/ q = <<>> THEN <<>>
  ELSE NTrim([k \in 1..(Len(p) + Len(q) - 1) |-> SSum(p, q, k, 1)])

\* helixHeight / (2 * Math.PI) = helixHeight * u
NOverTwoPi(q) == NTrim(<<SZero, SOfRat(q)>>)

(* ------------------------- the order of numbers ------------------------ *)

\* enclosures, in units of 1/10000, of the monomials u^k and sqrt(3)*u^k for
\* k = 0, 1, 2: 1.7320 < sqrt 3 < 1.7321, 0.1591 < 1/(2 pi) < 0.1592
MonoLo == <<<<10000, 17320>>, <<1591, 2756>>, <<253, 438>>>>

MonoHi == <<<<10000, 17321>>, <<1592, 2757>>, <<254, 439>>>>

RECURSIVE NDen(_, _)
\* the least common denominator of the coefficients p[k], p[k+1], ...
NDen(p, k) == IF k > Len(p) THEN 1 ELSE LCM(p[k].d, NDen(p, k + 1))

\* c times the least (up = FALSE) or greatest (up = TRUE) value of a monomial
MonoBound(c, lo, hi, up) == IF (c >= 0) = up THEN c * hi ELSE c * lo

RECURSIVE NBound(_, _, _, _)
\* a bound (lower for up = FALSE, upper for up = TRUE) of den * 10000 * p
NBound(p, den, k, up) ==
  IF k > Len(p) THEN 0
  ELSE MonoBound(p[k].a * (den \div p[k].d), MonoLo[k][1], MonoHi[k][1], up)
       + MonoBound(p[k].b * (den \div p[k].d), MonoLo[k][2], MonoHi[k][2], up)
       + NBound(p, den, k + 1, up)

\* the sign of p: exact for a number without u; otherwise decided by the
\* enclosures, and undefined (an evaluation error) when they cannot decide
NSign(p) ==
  CASE Len(p) = 0 -> 0
    [] Len(p) = 1 -> SSign(p[1])
    [] Len(p) \in 2..3 /\ NBound(p, NDen(p, 1), 1, FALSE) > 0 -> 1
    [] Len(p) \in 2..3 /\ NBound(p, NDen(p, 1), 1, TRUE) < 0 -> -1

NLess(p, q) == NSign(NSub(p, q)) = -1

(* ----------------- Math.cos, Math.sin on multiples of pi/6 ------------- *)

\* the angle a (a Rat, in units of pi) is a multiple of pi/6
OnGrid(a) == 6 % a[2] = 0

\* the index in 0..11 of the angle a*pi taken modulo 2*pi
GridIndex(a) == ((a[1] * (6 \div a[2])) % 12)

CosTable ==
  <<Surd(1, 0, 1), Surd(0, 1, 2), Surd(1, 0, 2), Surd(0, 0, 1),
    Surd(-1, 0, 2), Surd(0, -1, 2), Surd(-1, 0, 1), Surd(0, -1, 2),
    Surd(-1, 0, 2), Surd(0, 0, 1), Surd(1, 0, 2), Surd(0, 1, 2)>>

MathCos(a) == CosTable[GridIndex(a) + 1]

\* sin(x) = cos(x - pi/2)
MathSin(a) == CosTable[((GridIndex(a) + 9) % 12) + 1]


(* --------------------- JavaScript's % with divisor 1.0 ------------------ *)

\* p % 1.0: the remainder of the truncating division, with the sign of p
JsMod1(p) == IF p[1] >= 0 THEN Rat(p[1] % p[2], p[2]) ELSE Rat(-((-p[1]) % p[2]), p[2])

(* ------------------------ calculateHelixPosition ----------------------- *)

\* a strand taken from the rank instead of the index
helixIndex_ByRank(i) == (i \div 2) % 2

\* const helixIndex = i % 2;
helixIndex(i) == i % 2

\* Math.ceil in place of Math.floor
helixParticleIndex_Ceil(i) == (i + 1) \div 2

\* const helixParticleIndex = Math.floor(i / 2);
helixParticleIndex(i) == i \div 2

\* const particlesPerHelix = particleCount / 2;
particlesPerHelix(particleCount) == Rat(particleCount, 2)

\* const t = (helixParticleIndex / particlesPerHelix) + timeOffset;
t(i, particleCount, timeOffset) ==
  RAdd(RDiv(RInt(helixParticleIndex(i)), particlesPerHelix(particleCount)), timeOffset)

\* t >= 1.0 ? (t % 1.0) : (t < 0 ? (t % 1.0 + 1.0) : t)
Wrap(v) ==
  IF RLeq(RInt(1), v) THEN JsMod1(v)
  ELSE IF RLess(v, RInt(0)) THEN RAdd(JsMod1(v), RInt(1))
  ELSE v

\* const wrappedT = ...
wrappedT(i, particleCount, timeOffset) == Wrap(t(i, particleCount, timeOffset))

\* const majorRadius = helixHeight / (2 * Math.PI);
majorRadius(helixHeight) == NOverTwoPi(helixHeight)

\* const majorAngle = wrappedT * Math.PI * 2;          (in units of pi)
majorAngle(i, particleCount, timeOffset) ==
  RMul(wrappedT(i, particleCount, timeOffset), RInt(2))

\* const helixAngle = wrappedT * turns * Math.PI * 2;  (in units of pi)
helixAngle(i, particleCount, turns, timeOffset) ==
  RMul(RMul(wrappedT(i, particleCount, timeOffset), turns), RInt(2))

\* a quarter turn between the strands in place of a half turn
phaseOffset_Quarter(i) == Rat(i % 2, 2)

\* const phaseOffset = helixIndex * Math.PI;           (in units of pi)
phaseOffset(i) == RInt(helixIndex(i))

\* const minorX = Math.cos(helixAngle + phaseOffset) * helixRadius;
minorX(i, particleCount, helixRadius, turns, timeOffset) ==
  SMul(MathCos(RAdd(helixAngle(i, particleCount, turns, timeOffset), phaseOffset(i))),
       SOfRat(helixRadius))

\* Math.cos in place of Math.sin
minorY_Cos(i, particleCount, helixRadius, turns, timeOffset) ==
  minorX(i, particleCount, helixRadius, turns, timeOffset)

\* const minorY = Math.sin(helixAngle + phaseOffset) * helixRadius;
minorY(i, particleCount, helixRadius, turns, timeOffset) ==
  SMul(MathSin(RAdd(helixAngle(i, particleCount, turns, timeOffset), phaseOffset(i))),
       SOfRat(helixRadius))

\* const radiusAtAngle = majorRadius + minorX;
radiusAtAngle(i, particleCount, helixRadius, helixHeight, turns, timeOffset) ==
  NAdd(majorRadius(helixHeight),
       NOfSurd(minorX(i, particleCount, helixRadius, turns, timeOffset)))

calculateHelixPosition(i, particleCount, helixRadius, helixHeight, turns, timeOffset) ==
  LET rad == radiusAtAngle(i, particleCount, helixRadius, helixHeight, turns, timeOffset)
      ang == majorAngle(i, particleCount, timeOffset)
  IN  [x |-> NMul(rad, NOfSurd(MathCos(ang))),
       y |-> NOfSurd(minorY(i, particleCount, helixRadius, turns, timeOffset)),
       z |-> NMul(rad, NOfSurd(MathSin(ang))),
       helixIndex |-> helixIndex(i)]

\* both angles whose cosine and sine the call takes are multiples of pi/6
Representable(i, particleCount, turns, timeOffset) ==
  /\ OnGrid(majorAngle(i, particleCount, timeOffset))
  /\ OnGrid(RAdd(helixAngle(i, particleCount, turns, timeOffset), phaseOffset(i)))

(* ----------------------- the scene of main.ts ------------------------- *)

\* const gridSize = 5;
gridSize == 5

\* particles per strand of one helix of the scene (1000 in main.ts)
ScenePerHelix == 2

\* const particleCount = 2000;  (here 2 * ScenePerHelix)
sceneParticleCount == 2 * ScenePerHelix

\* const totalParticles = gridSize * gridSize * particleCount;
totalParticles == gridSize * gridSize * sceneParticleCount

\* the animation frames the model follows from each of its starting points
MaxTicks == 2

\* the later starting points: the ends of the ticks FrameStride, 2 * FrameStride,
\* ..., MaxSamples * FrameStride
FrameStride == 625

MaxSamples == 5

\* time += 0.005
TimeStep == Rat(5, 1000)

\* the time of the tick before, as if time were advanced after the loops
AnimateTimeOffset_Stale(tm) == RMul(RAdd(tm, RMul(RInt(-1), TimeStep)), Rat(8, 100))

\* the timeOffset animate passes to calculateHelixPosition: time * 0.08
AnimateTimeOffset(tm) == RMul(tm, Rat(8, 100))

\* const helixId = gridX * gridSize + gridZ;
helixId(gx, gz) == gx * gridSize + gz

\* const baseRotationSpeed = 0.3;
baseRotationSpeed == Rat(3, 10)

\* const rotationSpeed = baseRotationSpeed + (helixId % 7) * 0.03;
rotationSpeed(gx, gz) ==
  RAdd(baseRotationSpeed, RMul(RInt(helixId(gx, gz) % 7), Rat(3, 100)))

\* const rotationAngle = time * rotationSpeed;
rotationAngle(gx, gz, tm) == RMul(tm, rotationSpeed(gx, gz))

\* a write to a typed array: an index outside the array is ignored
Store(buf, k, v) == IF k \in DOMAIN buf THEN [buf EXCEPT ![k] = v] ELSE buf

\* new Float32Array(n): n zeros
Float32Array(n) == [k \in 0..(n - 1) |-> 0]

\* the three consecutive entries of particle slot index: index * 3 + axis
Entry(index, axis) == index * 3 + axis

\* the slot index carried over from the last tick, never reset
FirstSlot_Carried(carried) == carried

\* let particleIndex = 0;  (the first slot animate writes in a tick)
FirstSlot(carried) == 0

\* the coordinate (axis 0, 1, 2 = x, y, z) that a loop body computes for
\* particle i of the helix at (gx, gz): the fill (by = "fill") from
\* calculateHelixPosition(i, ..., 0) plus the grid offset, animate from
\* calculateHelixPosition(i, ..., time * 0.08) rotated, tilted, offset, zoomed
Coordinate(by, axis, gx, gz, i, tm) ==
  [by |-> by, axis |-> axis, gridX |-> gx, gridZ |-> gz, i |-> i,
   timeOffset |-> IF by = "fill" THEN RInt(0) ELSE AnimateTimeOffset(tm),
   rotationAngle |-> IF by = "fill" THEN RInt(0) ELSE rotationAngle(gx, gz, tm),
   time |-> tm]

\* fill: const t = Math.floor(i / 2) / (particleCount / 2);
\*       const hue = (t + pos.helixIndex * 0.5) % 1.0;
FillHue(i) ==
  JsMod1(RAdd(RDiv(RInt(i \div 2), Rat(sceneParticleCount, 2)),
              RMul(RInt(helixIndex(i)), Rat(1, 2))))

\* the progress left unwrapped
animate_wrappedT_NoWrap(i, tm) ==
  RAdd(RDiv(RInt(i \div 2), Rat(sceneParticleCount, 2)), RMul(tm, Rat(8, 100)))

\* animate: helixParticleIndex, particlesPerHelix, t and wrappedT recomputed
animate_wrappedT(i, tm) ==
  LET hpi == i \div 2
      pph == Rat(sceneParticleCount, 2)
      tt == RAdd(RDiv(RInt(hpi), pph), RMul(tm, Rat(8, 100)))
  IN  IF RLeq(RInt(1), tt) THEN JsMod1(tt)
      ELSE IF RLess(tt, RInt(0)) THEN RAdd(JsMod1(tt), RInt(1))
      ELSE tt

\* const hue = (wrappedT + (i % 2) * 0.5) % 1.0;
AnimateHue(i, tm) == JsMod1(RAdd(animate_wrappedT(i, tm), RMul(RInt(i % 2), Rat(1, 2))))

\* new THREE.Color().setHSL(hue, 0.8, 0.6), channel 0, 1, 2 = r, g, b
ColorChannel(channel, hue) == [channel |-> channel, hue |-> hue]

RAbs(q) == IF q[1] < 0 THEN <<-q[1], q[2]>> ELSE q

RMin(p, q) == IF RLess(q, p) THEN q ELSE p

\* const glowPosition = (time * glowSpeed + helixId * 0.1) % 1.0;
glowPosition(gx, gz, tm) ==
  JsMod1(RAdd(RMul(tm, Rat(3, 10)), RMul(RInt(helixId(gx, gz)), Rat(1, 10))))

\* let distToGlow = Math.abs(wrappedT - glowPosition);
\* distToGlow = Math.min(distToGlow, 1.0 - distToGlow);
distToGlow(gx, gz, i, tm) ==
  LET d == RAbs(RAdd(animate_wrappedT(i, tm), RMul(RInt(-1), glowPosition(gx, gz, tm))))
  IN  RMin(d, RAdd(RInt(1), RMul(RInt(-1), d)))

\* const glowRadius = 0.08;
glowRadius == Rat(8, 100)

\* the falloff taken outside the glow spot too
glowIntensity_Unclamped(gx, gz, i, tm) ==
  RAdd(RInt(1), RMul(RInt(-1), RDiv(distToGlow(gx, gz, i, tm), glowRadius)))

\* distToGlow < glowRadius ? (1.0 - distToGlow / glowRadius) : 0.0
glowIntensity(gx, gz, i, tm) ==
  LET d == distToGlow(gx, gz, i, tm)
  IN  IF RLess(d, glowRadius)
      THEN RAdd(RInt(1), RMul(RInt(-1), RDiv(d, glowRadius)))
      ELSE RInt(0)

(* ------------------------------- state --------------------------------- *)

VARIABLES
  call,         \* the arguments of the current call of calculateHelixPosition
  pos,          \* <<its return value>>, NoValue before the call returns
  helix0Count,  \* the calls so far that returned helixIndex 0
  helix1Count,  \* the calls so far that returned another helixIndex
  phase,        \* where main.ts is: "fill", "frame", "tick", "idle" ("off": not loaded)
  loop,         \* the counters gridX, gridZ, i of the running loop nest
  particleIndex,          \* let particleIndex of the module (the fill)
  animate_particleIndex,  \* let particleIndex of animate
  time,         \* let time
  scheduled,    \* the calls of animate requested and not yet started
  ticks,        \* the runs of animate started so far
  positions,    \* the Float32Array of 3 * totalParticles coordinates
  colors,       \* the Float32Array of 3 * totalParticles colour channels
  sizes,        \* the Float32Array of totalParticles sizes
  glows,        \* the Float32Array of totalParticles glow intensities
  log           \* the writes of the running (or last) loop nest, in order

mapperVars == <<call, pos, helix0Count, helix1Count>>

sceneVars ==
  <<phase, loop, particleIndex, animate_particleIndex, time, scheduled, ticks,
    positions, colors, sizes, glows, log>>

vars == <<mapperVars, sceneVars>>

NoValue == <<>>

ParticleCounts == {2 * p : p \in 1..MaxPerHelix}

\* helixRadius and helixHeight: 0.8 and 6.0 in the tests, 3.0 and 60.0 in the scene
Geometries ==
  {[helixRadius |-> Rat(4, 5), helixHeight |-> RInt(6)],
   [helixRadius |-> RInt(3), helixHeight |-> RInt(60)]}

TurnValues == {Rat(k, 2) : k \in 1..MaxTurns2}

TimeOffsets == {Rat(k, 12) : k \in (-MaxOffset12)..MaxOffset12}

\* the parameters for which every particle's angles are multiples of pi/6
Runs ==
  {c \in [particleCount : ParticleCounts, geometry : Geometries,
          turns : TurnValues, timeOffset : TimeOffsets] :
     \A i \in 0..(c.particleCount - 1) :
        Representable(i, c.particleCount, c.turns, c.timeOffset)}

\* the scene before main.ts runs
SceneOff ==
  /\ phase = "off"
  /\ loop = [gridX |-> 0, gridZ |-> 0, i |-> 0]
  /\ particleIndex = 0
  /\ animate_particleIndex = 0
  /\ time = RInt(0)
  /\ scheduled = 0
  /\ ticks = 0
  /\ positions = <<>>
  /\ colors = <<>>
  /\ sizes = <<>>
  /\ glows = <<>>
  /\ log = <<>>

\* no call of the mapper under study
MapperOff ==
  /\ call = [i |-> 0, particleCount |-> 2, helixRadius |-> Rat(4, 5),
             helixHeight |-> RInt(6), turns |-> RInt(4), timeOffset |-> RInt(0)]
  /\ pos = NoValue
  /\ helix0Count = 0
  /\ helix1Count = 0

(* ---------------- the loop over the particles, as the tests run it ------ *)

\* for (let i = 0; i < particleCount; i++): the loop starts at particle 0
InitMapper ==
  /\ \E c \in Runs :
        call = [i |-> 0, particleCount |-> c.particleCount,
                helixRadius |-> c.geometry.helixRadius,
                helixHeight |-> c.geometry.helixHeight,
                turns |-> c.turns, timeOffset |-> c.timeOffset]
  /\ pos = NoValue
  /\ helix0Count = 0
  /\ helix1Count = 0
  /\ SceneOff

\* const pos = calculateHelixPosition(i, ...); if (pos.helixIndex === 0) ... else ...
Calculate ==
  /\ pos = NoValue
  /\ LET p == calculateHelixPosition(call.i, call.particleCount, call.helixRadius,
                                     call.helixHeight, call.turns, call.timeOffset)
     IN  /\ pos' = <<p>>
         /\ helix0Count' = IF p.helixIndex = 0 THEN helix0Count + 1 ELSE helix0Count
         /\ helix1Count' = IF p.helixIndex = 0 THEN helix1Count ELSE helix1Count + 1
  /\ UNCHANGED <<call, sceneVars>>

\* i++ while i < particleCount
NextParticle ==
  /\ pos # NoValue
  /\ call.i + 1 < call.particleCount
  /\ call' = [call EXCEPT !.i = call.i + 1]
  /\ pos' = NoValue
  /\ UNCHANGED <<helix0Count, helix1Count, sceneVars>>

NextMapper == Calculate \/ NextParticle

SpecMapper == InitMapper /\ [][NextMapper]_vars

(* ------------------- the grid fill and the animation -------------------- *)

\* the state when the fill loop nest of main.ts starts (lines 83 to 93)
Init ==
  /\ MapperOff
  /\ phase = "fill"
  /\ loop = [gridX |-> 0, gridZ |-> 0, i |-> 0]
  /\ particleIndex = 0
  /\ animate_particleIndex = 0
  /\ time = RInt(0)
  /\ scheduled = 0
  /\ ticks = 0
  /\ positions = Float32Array(totalParticles * 3)
  /\ colors = Float32Array(totalParticles * 3)
  /\ sizes = Float32Array(totalParticles)
  /\ glows = Float32Array(totalParticles)
  /\ log = <<>>

\* the counters after i++, gridZ++ and gridX++ as the three for loops nest
Advance(l) ==
  IF l.i + 1 < sceneParticleCount THEN [l EXCEPT !.i = l.i + 1]
  ELSE IF l.gridZ + 1 < gridSize THEN [l EXCEPT !.i = 0, !.gridZ = l.gridZ + 1]
  ELSE [gridX |-> l.gridX + 1, gridZ |-> 0, i |-> 0]

\* the loop nest has run to its end: gridX < gridSize fails
LoopDone(l) == l.gridX >= gridSize

LogEntry(index, l) == [slot |-> index, gridX |-> l.gridX, gridZ |-> l.gridZ, i |-> l.i]

\* one run of the innermost body of the fill (lines 99 to 116)
FillStep ==
  /\ phase = "fill"
  /\ ~LoopDone(loop)
  /\ positions' =
       Store(Store(Store(positions,
         Entry(particleIndex, 0), Coordinate("fill", 0, loop.gridX, loop.gridZ, loop.i, time)),
         Entry(particleIndex, 1), Coordinate("fill", 1, loop.gridX, loop.gridZ, loop.i, time)),
         Entry(particleIndex, 2), Coordinate("fill", 2, loop.gridX, loop.gridZ, loop.i, time))
  /\ colors' =
       Store(Store(Store(colors,
         Entry(particleIndex, 0), ColorChannel(0, FillHue(loop.i))),
         Entry(particleIndex, 1), ColorChannel(1, FillHue(loop.i))),
         Entry(particleIndex, 2), ColorChannel(2, FillHue(loop.i)))
  /\ sizes' = Store(sizes, particleIndex, 1)
  /\ glows' = Store(glows, particleIndex, RInt(0))
  /\ log' = Append(log, LogEntry(particleIndex, loop))
  /\ particleIndex' = particleIndex + 1
  /\ loop' = Advance(loop)
  /\ UNCHANGED <<mapperVars, phase, animate_particleIndex, time, scheduled, ticks>>

\* the fill has ended: the geometry is built and main.ts calls animate() (line 250)
FillEnd ==
  /\ phase = "fill"
  /\ LoopDone(loop)
  /\ phase' = "frame"
  /\ UNCHANGED <<mapperVars, loop, particleIndex, animate_particleIndex, time,
                 scheduled, ticks, positions, colors, sizes, glows, log>>

\* animate starts, called by main.ts or by a requested frame (lines 135 to 150)
AnimateBegin ==
  /\ \/ phase = "frame"
     \/ phase = "idle" /\ scheduled > 0
  /\ ticks % FrameStride < MaxTicks
  /\ scheduled' = (IF phase = "idle" THEN scheduled - 1 ELSE scheduled) + 1
  /\ time' = RAdd(time, TimeStep)
  /\ ticks' = ticks + 1
  /\ animate_particleIndex' = FirstSlot(animate_particleIndex)
  /\ loop' = [gridX |-> 0, gridZ |-> 0, i |-> 0]
  /\ log' = <<>>
  /\ phase' = "tick"
  /\ UNCHANGED <<mapperVars, particleIndex, positions, colors, sizes, glows>>

\* one run of the innermost body of animate (lines 170 to 227)
AnimateStep ==
  /\ phase = "tick"
  /\ ~LoopDone(loop)
  /\ positions' =
       Store(Store(Store(positions,
         Entry(animate_particleIndex, 0),
           Coordinate("animate", 0, loop.gridX, loop.gridZ, loop.i, time)),
         Entry(animate_particleIndex, 1),
           Coordinate("animate", 1, loop.gridX, loop.gridZ, loop.i, time)),
         Entry(animate_particleIndex, 2),
           Coordinate("animate", 2, loop.gridX, loop.gridZ, loop.i, time))
  /\ glows' = Store(glows, animate_particleIndex,
                    glowIntensity(loop.gridX, loop.gridZ, loop.i, time))
  /\ colors' =
       Store(Store(Store(colors,
         Entry(animate_particleIndex, 0), ColorChannel(0, AnimateHue(loop.i, time))),
         Entry(animate_particleIndex, 1), ColorChannel(1, AnimateHue(loop.i, time))),
         Entry(animate_particleIndex, 2), ColorChannel(2, AnimateHue(loop.i, time)))
  /\ log' = Append(log, LogEntry(animate_particleIndex, loop))
  /\ animate_particleIndex' = animate_particleIndex + 1
  /\ loop' = Advance(loop)
  /\ UNCHANGED <<mapperVars, phase, particleIndex, time, scheduled, ticks, sizes>>

\* the loops of animate have ended: the buffers are flagged and the frame is
\* rendered (lines 232 to 240)
AnimateEnd ==
  /\ phase = "tick"
  /\ LoopDone(loop)
  /\ phase' = "idle"
  /\ UNCHANGED <<mapperVars, loop, particleIndex, animate_particleIndex, time,
                 scheduled, ticks, positions, colors, sizes, glows, log>>

Next == FillStep \/ FillEnd \/ AnimateBegin \/ AnimateStep \/ AnimateEnd

Spec == Init /\ [][Next]_vars

(* ------------------------- the scene at later frames -------------------- *)

\* the grid cell and the particle that own slot index
SlotOwner(index) ==
  [gridX |-> (index \div sceneParticleCount) \div gridSize,
   gridZ |-> (index \div sceneParticleCount) % gridSize,
   i |-> index % sceneParticleCount]

\* the scene when the n-th run of animate has ended (n >= 1) and the next
\* one is requested: every loop body of that run has written its slot
FrameState(n) ==
  LET tm == RMul(RInt(n), TimeStep)
      own(index) == SlotOwner(index)
  IN  [phase |-> "idle",
       loop |-> [gridX |-> gridSize, gridZ |-> 0, i |-> 0],
       particleIndex |-> totalParticles,
       animate_particleIndex |-> totalParticles,
       time |-> tm,
       scheduled |-> 1,
       ticks |-> n,
       positions |-> [k \in 0..(totalParticles * 3 - 1) |->
                        Coordinate("animate", k % 3, own(k \div 3).gridX,
                                   own(k \div 3).gridZ, own(k \div 3).i, tm)],
       colors |-> [k \in 0..(totalParticles * 3 - 1) |->
                     ColorChannel(k % 3, AnimateHue(own(k \div 3).i, tm))],
       sizes |-> [k \in 0..(totalParticles - 1) |-> 1],
       glows |-> [k \in 0..(totalParticles - 1) |->
                    glowIntensity(own(k).gridX, own(k).gridZ, own(k).i, tm)],
       log |-> [k \in 1..totalParticles |-> LogEntry(k - 1, own(k - 1))]]

SceneIs(f) ==
  /\ phase = f.phase
  /\ loop = f.loop
  /\ particleIndex = f.particleIndex
  /\ animate_particleIndex = f.animate_particleIndex
  /\ time = f.time
  /\ scheduled = f.scheduled
  /\ ticks = f.ticks
  /\ positions = f.positions
  /\ colors = f.colors
  /\ sizes = f.sizes
  /\ glows = f.glows
  /\ log = f.log

\* every state of Spec between two runs of animate is the FrameState of its tick
IdleIsFrameState == phase = "idle" => SceneIs(FrameState(ticks))

InitLater ==
  /\ MapperOff
  /\ \E sample \in 1..MaxSamples : SceneIs(FrameState(sample * FrameStride))

\* main.ts from its start, and from the ends of the sampled later ticks
SpecLater == (Init \/ InitLater) /\ [][Next]_vars

(* ------------------------ the parameters of the tests ------------------ *)

\* helixRadius = 0.8, helixHeight = 6.0, turns = 4.0, timeOffset = 0 (default)
TestParameters ==
  /\ call.helixRadius = Rat(4, 5)
  /\ call.helixHeight = RInt(6)
  /\ call.turns = RInt(4)
  /\ call.timeOffset = RInt(0)

Returned == pos # NoValue

\* calculateHelixPosition for particle j with the other arguments of the call
PositionOf(j) ==
  calculateHelixPosition(j, call.particleCount, call.helixRadius, call.helixHeight,
                         call.turns, call.timeOffset)

NSquare(p) == NMul(p, p)

(* -------------------------------- claims ------------------------------- *)

\* C1: the returned helixIndex is 0 for an even i and 1 for an odd i, whatever
\* the other arguments; and when the loop over all particles of an even
\* particleCount ends, each strand has been returned particleCount/2 times.
C1_StrandAlternation ==
  Returned =>
    /\ \/ pos[1].helixIndex = 0 /\ \E k \in 0..call.i : call.i = 2 * k
       \/ pos[1].helixIndex = 1 /\ \E k \in 0..call.i : call.i = 2 * k + 1
    /\ call.i = call.particleCount - 1 =>
         /\ 2 * helix0Count = call.particleCount
         /\ 2 * helix1Count = call.particleCount

C1_Witness ==
  /\ Returned
  /\ call.particleCount = 6
  /\ call.i = 5
  /\ call.timeOffset = Rat(-1, 2)
  /\ helix0Count = 3
  /\ helix1Count = 3

\* C2: the wrapped progress lies in [0, 1) and is the floor-based remainder
\* modulo 1 of helixParticleIndex/particlesPerHelix + timeOffset, for a
\* timeOffset of any sign.
C2_WrappedIsTrueModulo ==
  Returned =>
    LET w == wrappedT(call.i, call.particleCount, call.timeOffset)
    IN  /\ RLeq(RInt(0), w)
        /\ RLess(w, RInt(1))
        /\ w = RModFloor1(t(call.i, call.particleCount, call.timeOffset))

\* C3: a call with timeOffset + 1 uses the same wrapped progress and returns
\* the same x, y, z and helixIndex as the call with timeOffset.
C3_PeriodOne ==
  Returned =>
    /\ wrappedT(call.i, call.particleCount, RAdd(call.timeOffset, RInt(1)))
         = wrappedT(call.i, call.particleCount, call.timeOffset)
    /\ calculateHelixPosition(call.i, call.particleCount, call.helixRadius,
                              call.helixHeight, call.turns,
                              RAdd(call.timeOffset, RInt(1))) = pos[1]

\* C4: particle 2k+1 has the spiral phase of particle 2k plus pi; its local
\* radial offset and its y are the negatives of those of particle 2k.
C4_StrandsOpposed ==
  (Returned /\ call.i % 2 = 0 /\ call.i + 1 < call.particleCount) =>
    LET k == call.i
        spiral(j) == RAdd(helixAngle(j, call.particleCount, call.turns, call.timeOffset),
                          phaseOffset(j))
        radial(j) == minorX(j, call.particleCount, call.helixRadius, call.turns,
                            call.timeOffset)
    IN  /\ spiral(k + 1) = RAdd(spiral(k), RInt(1))
        /\ SAdd(radial(k), radial(k + 1)) = SZero
        /\ NAdd(pos[1].y, PositionOf(k + 1).y) = NZero

C4_Witness ==
  /\ Returned
  /\ call.i = 2
  /\ call.particleCount = 12
  /\ call.turns = RInt(1)
  /\ call.timeOffset = Rat(-1, 12)
  /\ pos[1].y # NZero
  /\ Len(pos[1].x) = 2

\* C5: the returned point is at distance helixRadius from the point of the
\* major circle at majorAngle:
\* (x - R cos a)^2 + y^2 + (z - R sin a)^2 = helixRadius^2, R = majorRadius.
C5_DistanceFromAxis ==
  Returned =>
    LET a == majorAngle(call.i, call.particleCount, call.timeOffset)
        R == majorRadius(call.helixHeight)
        dx == NSub(pos[1].x, NMul(R, NOfSurd(MathCos(a))))
        dz == NSub(pos[1].z, NMul(R, NOfSurd(MathSin(a))))
    IN  NAdd(NAdd(NSquare(dx), NSquare(pos[1].y)), NSquare(dz))
          = NOfRat(RMul(call.helixRadius, call.helixRadius))

C5_Witness ==
  /\ Returned
  /\ TestParameters
  /\ call.particleCount = 12
  /\ call.i = 3
  /\ pos[1].y # NZero
  /\ pos[1].z # NZero

\* C6: with the parameters of the tests, the particles 0 and 1 satisfy
\* |x(0) + x(1)| < 0.1 and |y(0) - y(1)| < 0.001.
C6_RankZeroOpposite ==
  (Returned /\ TestParameters /\ call.i = 1) =>
    LET sx == NAdd(PositionOf(0).x, pos[1].x)
        dy == NSub(PositionOf(0).y, pos[1].y)
    IN  /\ NLess(sx, NOfRat(Rat(1, 10)))
        /\ NLess(NOfRat(Rat(-1, 10)), sx)
        /\ NLess(dy, NOfRat(Rat(1, 1000)))
        /\ NLess(NOfRat(Rat(-1, 1000)), dy)

\* C7: with the parameters of the tests, every particle satisfies
\* |sqrt(x^2 + z^2) - helixRadius| < 0.01, stated on the squares:
\* (helixRadius - 0.01)^2 < x^2 + z^2 < (helixRadius + 0.01)^2.
C7_HorizontalDistanceIsRadius ==
  (Returned /\ TestParameters) =>
    LET d2 == NAdd(NSquare(pos[1].x), NSquare(pos[1].z))
        lo == RAdd(call.helixRadius, Rat(-1, 100))
        hi == RAdd(call.helixRadius, Rat(1, 100))
    IN  /\ NLess(NOfRat(RMul(lo, lo)), d2)
        /\ NLess(d2, NOfRat(RMul(hi, hi)))

\* C8: with the parameters of the tests, y of particle 0 is strictly negative
\* and y of particle particleCount - 1 is strictly positive.
C8_FirstBelowLastAbove ==
  (Returned /\ TestParameters) =>
    /\ call.i = 0 => NSign(pos[1].y) = -1
    /\ call.i = call.particleCount - 1 => NSign(pos[1].y) = 1

\* C9: the particles 2k and 2k+1 have the same rank k, the same wrapped
\* progress and the same majorAngle; the particles 2k+1 and 2k+2 have the
\* ranks k and k+1 and different wrapped progress.
C9_PairsShareProgress ==
  (Returned /\ call.i + 1 < call.particleCount) =>
    LET j == call.i
        w(n) == wrappedT(n, call.particleCount, call.timeOffset)
        a(n) == majorAngle(n, call.particleCount, call.timeOffset)
    IN  /\ j % 2 = 0 =>
             /\ 2 * helixParticleIndex(j) = j
             /\ helixParticleIndex(j + 1) = helixParticleIndex(j)
             /\ w(j + 1) = w(j)
             /\ a(j + 1) = a(j)
        /\ j % 2 = 1 =>
             /\ 2 * helixParticleIndex(j) + 1 = j
             /\ helixParticleIndex(j + 1) = helixParticleIndex(j) + 1
             /\ w(j + 1) # w(j)

C9_Witness ==
  /\ Returned
  /\ call.i = 3
  /\ call.particleCount = 8
  /\ call.timeOffset = Rat(-5, 4)
  /\ wrappedT(3, 8, call.timeOffset) = RInt(1)

\* the slot of particle i of the helix at grid cell (gx, gz)
OwnSlot(gx, gz, i) == (gx * gridSize + gz) * sceneParticleCount + i

\* the loop nest that wrote the log: the fill or animate
Writer == IF phase \in {"fill", "frame"} THEN "fill" ELSE "animate"

\* the slot index the running loop nest writes next
RunningIndex == IF Writer = "fill" THEN particleIndex ELSE animate_particleIndex

\* the loop nest that wrote the log has run to its end
NestEnded == phase \in {"frame", "idle"} \/ LoopDone(loop)

\* C10: in the fill and in every tick, particle i of the helix at (gridX, gridZ)
\* is written to slot (gridX*gridSize + gridZ)*particleCount + i, inside the
\* buffers, and its values are what the buffers hold there; the running
\* particleIndex counts the writes of the tick from 0; when the loop nest ends,
\* every slot in [0, totalParticles) has been written exactly once and
\* particleIndex = totalParticles.
C10_OwnSlot ==
  phase # "off" =>
    /\ RunningIndex = Len(log)
    /\ \A k \in 1..Len(log) :
         LET e == log[k]
         IN  /\ e.slot = OwnSlot(e.gridX, e.gridZ, e.i)
             /\ e.slot \in 0..(totalParticles - 1)
             /\ \A axis \in 0..2 :
                  /\ 3 * e.slot + axis \in DOMAIN positions
                  /\ positions[3 * e.slot + axis]
                       = Coordinate(Writer, axis, e.gridX, e.gridZ, e.i, time)
             /\ e.slot \in DOMAIN glows
             /\ glows[e.slot] = IF Writer = "fill" THEN RInt(0)
                                ELSE glowIntensity(e.gridX, e.gridZ, e.i, time)
    /\ NestEnded =>
         /\ RunningIndex = totalParticles
         /\ \A slot \in 0..(totalParticles - 1) :
              Cardinality({k \in 1..Len(log) : log[k].slot = slot}) = 1
         /\ \A k \in 1..Len(log) : log[k].slot \in 0..(totalParticles - 1)

C10_Witness ==
  /\ phase = "idle"
  /\ time = RMul(RInt(2), TimeStep)
  /\ animate_particleIndex = totalParticles
  /\ Len(log) = totalParticles
  /\ log[totalParticles] = [slot |-> totalParticles - 1, gridX |-> gridSize - 1,
                            gridZ |-> gridSize - 1, i |-> sceneParticleCount - 1]
  /\ positions[3 * totalParticles - 1].i = sceneParticleCount - 1
  /\ \E slot \in DOMAIN glows : glows[slot] # RInt(0)

\* C11: time never decreases and is 0.005 * n after n starts of animate; a
\* start of animate adds exactly 0.005 to time before any particle of the tick
\* is evaluated and leaves exactly one further call of animate requested; and
\* every particle written in a tick was evaluated with timeOffset = time * 0.08
\* for the time of that tick.
C11_TimeAdvancesFirst ==
  [][/\ RLeq(time, time')
     /\ RLeq(RInt(0), time')
     /\ time' = RMul(RInt(ticks'), Rat(5, 1000))
     /\ ticks' # ticks =>
          /\ ticks' = ticks + 1
          /\ RLess(time, time')
          /\ time' = RAdd(time, Rat(5, 1000))
          /\ log' = <<>>
          /\ scheduled' = 1
     /\ time' # time => ticks' # ticks
     /\ phase' \in {"tick", "idle"} =>
          \A k \in 1..Len(log') : \A axis \in 0..2 :
             LET c == positions'[3 * log'[k].slot + axis]
             IN  /\ c.by = "animate"
                 /\ c.time = time'
                 /\ c.timeOffset = RMul(time', Rat(8, 100))
                 /\ c.i = log'[k].i
    ]_vars

C11_Witness ==
  /\ phase = "idle"
  /\ ticks = 2
  /\ time = Rat(1, 100)
  /\ scheduled = 1
  /\ Len(log) = totalParticles
  /\ positions[0].timeOffset = Rat(8, 10000)
  /\ positions[3 * totalParticles - 1].timeOffset = Rat(8, 10000)

\* C12: any two distinct grid cells have different rotation speeds
\* 0.3 + (helixId mod 7) * 0.03, so the particles of two different helices
\* written in a tick were turned by different rotation angles.
C12_UniqueRotationSpeed ==
  phase \in {"tick", "idle"} =>
    \A j, k \in 1..Len(log) :
       <<log[j].gridX, log[j].gridZ>> # <<log[k].gridX, log[k].gridZ>> =>
          /\ rotationSpeed(log[j].gridX, log[j].gridZ)
               # rotationSpeed(log[k].gridX, log[k].gridZ)
          /\ positions[3 * log[j].slot].rotationAngle
               # positions[3 * log[k].slot].rotationAngle

\* the progress t that calculateHelixPosition forms for the particle of log
\* entry e from the timeOffset its coordinate was computed with
MapperT(e) == t(e.i, sceneParticleCount, positions[3 * e.slot].timeOffset)

\* C13: for every particle written in a tick, the wrappedT that animate
\* recomputes equals the wrappedT of calculateHelixPosition for the same i and
\* the timeOffset the position was computed with, and the hue written to the
\* colour buffer is derived from that progress.
C13_SameProgress ==
  phase \in {"tick", "idle"} =>
    \A k \in 1..Len(log) :
       LET e == log[k]
           w == wrappedT(e.i, sceneParticleCount, positions[3 * e.slot].timeOffset)
       IN  /\ positions[3 * e.slot].timeOffset = RMul(time, Rat(8, 100))
           /\ animate_wrappedT(e.i, time) = w
           /\ \A channel \in 0..2 :
                colors[3 * e.slot + channel].hue
                  = JsMod1(RAdd(w, RMul(RInt(e.i % 2), Rat(1, 2))))

\* a run of animate that started from the program's start or a later frame has
\* ended, and some particle's progress was wrapped (t >= 1) and some was not
C13_Witness ==
  /\ phase = "idle"
  /\ ticks % FrameStride = MaxTicks
  /\ Len(log) = totalParticles
  /\ \E k \in 1..Len(log) :
        /\ RLess(RInt(1), MapperT(log[k]))
        /\ animate_wrappedT(log[k].i, time) = RAdd(MapperT(log[k]), RInt(-1))
  /\ \E k \in 1..Len(log) : RLess(MapperT(log[k]), RInt(1))

\* C14: every glow value written in a tick lies in [0, 1]: glowPosition and
\* wrappedT lie in [0, 1), distToGlow lies in [0, 0.5], and the value is
\* 1 - distToGlow/0.08 when distToGlow < 0.08 and 0 otherwise.
C14_GlowInUnitInterval ==
  phase \in {"tick", "idle"} =>
    \A k \in 1..Len(log) :
       LET e == log[k]
           g == glows[e.slot]
           gp == glowPosition(e.gridX, e.gridZ, time)
           w == animate_wrappedT(e.i, time)
           d == distToGlow(e.gridX, e.gridZ, e.i, time)
       IN  /\ RLeq(RInt(0), g) /\ RLeq(g, RInt(1))
           /\ RLeq(RInt(0), gp) /\ RLess(gp, RInt(1))
           /\ gp = RModFloor1(RAdd(RMul(time, Rat(3, 10)),
                                   RMul(RInt(helixId(e.gridX, e.gridZ)), Rat(1, 10))))
           /\ RLeq(RInt(0), w) /\ RLess(w, RInt(1))
           /\ RLeq(RInt(0), d) /\ RLeq(d, Rat(1, 2))
           /\ RLess(d, Rat(8, 100)) =>
                g = RAdd(RInt(1), RMul(RInt(-1), RDiv(d, Rat(8, 100))))
           /\ ~RLess(d, Rat(8, 100)) => g = RInt(0)

\* a later run of animate has ended with a particle inside the glow spot, one
\* outside it, and one whose distance to the spot is taken around the wrap
C14_Witness ==
  /\ phase = "idle"
  /\ ticks > FrameStride
  /\ ticks % FrameStride = MaxTicks
  /\ Len(log) = totalParticles
  /\ \E k \in 1..Len(log) :
        RLess(RInt(0), glows[log[k].slot]) /\ RLess(glows[log[k].slot], RInt(1))
  /\ \E k \in 1..Len(log) : glows[log[k].slot] = RInt(0)
  /\ \E k \in 1..Len(log) :
        /\ RLess(Rat(1, 2), RAbs(RAdd(animate_wrappedT(log[k].i, time),
                                      RMul(RInt(-1), glowPosition(log[k].gridX,
                                                                  log[k].gridZ, time)))))
        /\ RLess(RInt(0), glows[log[k].slot])

=============================================================================
